---- MODULE Spec2Model ----
(***************************************************************************)
(* Model of src/google_sheets.py: GoogleSheetsHandler (the per-user        *)
(* spreadsheet cache and the row normaliser) and the entry point           *)
(* create_google_sheet.  The Google Drive / Sheets backend is external:    *)
(* each remote call either succeeds or raises HttpError, chosen            *)
(* nondeterministically.  No coroutine of the module awaits anything but   *)
(* its own coroutines, so one call runs to its end before the next starts; *)
(* each remote call is one step of the model.                              *)
(***************************************************************************)
EXTENDS Integers, Sequences, FiniteSets, TLC

VARIABLES
    user_spreadsheets,  \* handler name -> (user_id -> spreadsheet id): self.user_spreadsheets
    drive_files,        \* spreadsheet id -> title: the documents that exist in the backend
    permissions,        \* spreadsheet ids on which the collaborator was granted writer
    pc,                 \* position of the call in flight
    entry,              \* the outermost function of the call in flight
    user_id,            \* argument user_id
    username,           \* argument username
    cached_at_call,     \* history: user_id was in the handler's cache when the call started
    spreadsheet_id,     \* value returned by get_or_create_user_spreadsheet (0: none yet)
    sheet_name,         \* local sheet_name of create_sheet_for_query
    data,               \* argument data of create_sheet_for_query
    values,             \* local values of create_sheet_for_query
    idx,                \* position of the for loop in data
    exc,                \* the exception that ended the call ("" when none)
    log,                \* history: the remote calls of the call in flight, in order
    exported            \* history: user_id -> id resolved by an earlier create_google_sheet

vars == <<user_spreadsheets, drive_files, permissions, pc, entry, user_id, username,
          cached_at_call, spreadsheet_id, sheet_name, data, values, idx, exc, log,
          exported>>

-----------------------------------------------------------------------------
(* Bounds of the model *)

MaxDocs == 2
MaxRecords == 2

(* Program constants *)

TruncLen == 50
TrustPilotArity == 8
GoogleMapsArity == 6

-----------------------------------------------------------------------------
(* Python values and str() *)

Min(a, b) == IF a < b THEN a ELSE b
Max(a, b) == IF a > b THEN a ELSE b

PyStr(s) == [t |-> "str", s |-> s, n |-> 0, items |-> <<>>]
PyInt(n) == [t |-> "int", s |-> "", n |-> n, items |-> <<>>]
PyList(items) == [t |-> "list", s |-> "", n |-> 0, items |-> items]
PyNone == [t |-> "none", s |-> "", n |-> 0, items |-> <<>>]

NA == PyStr("N/A")

DigitChars == <<"0", "1", "2", "3", "4", "5", "6", "7", "8", "9">>

RECURSIVE IntStr(_)
IntStr(n) ==
    IF n < 10 THEN DigitChars[n + 1]
    ELSE IntStr(n \div 10) \o DigitChars[(n % 10) + 1]

RECURSIVE Join(_, _)
Join(items, sep) ==
    IF Len(items) = 0 THEN ""
    ELSE IF Len(items) = 1 THEN items[1]
    ELSE items[1] \o sep \o Join(Tail(items), sep)

Quoted(items) == [i \in 1..Len(items) |-> "'" \o items[i] \o "'"]

Str(x) ==
    CASE x.t = "str" -> x.s
      [] x.t = "int" -> IntStr(x.n)
      [] x.t = "none" -> "None"
      [] x.t = "list" -> "[" \o Join(Quoted(x.items), ", ") \o "]"

RECURSIVE Ljust(_, _)
Ljust(s, width) == IF Len(s) >= width THEN s ELSE Ljust(s \o " ", width)

Field(x) == Ljust(Str(x), Len(Str(x)))

EmailsStr(emails) ==
    IF emails.t = "list" THEN Join(emails.items, ", ") ELSE Str(emails)

-----------------------------------------------------------------------------
(* Inputs *)

Handlers == {"client", "sheets_handler"}

Users == {[id |-> 1, username |-> "alice"], [id |-> 2, username |-> ""]}

DisplayName(u) == IF u.username # "" THEN u.username ELSE IntStr(u.id)

Title(name) == "Results for " \o name

QuerySamples ==
    {[category |-> "Spa", country |-> "UK", city |-> "London"],
     ("category" :> "Physiotherapy and Rehabilitation Clinics")}

Timestamps == {"2024-01-02_03-04-05"}

Tuple(fields) == [kind |-> "tuple", fields |-> fields, map |-> <<>>]
Dict(map) == [kind |-> "dict", fields |-> <<>>, map |-> map]
Other == [kind |-> "str", fields |-> <<>>, map |-> <<>>]

RecordSamples ==
    {[source |-> "TrustPilot",
      company_data |-> Tuple(<<PyStr("Acme"), PyNone, PyList(<<"a@x.com", "b@x.com">>),
                               PyStr("555-1234567"), PyStr("NYC"), PyInt(45)>>)],
     [source |-> "Google Maps",
      company_data |-> Tuple(<<PyStr("Cafe"), PyStr("cafe.io"), PyStr("c@y.org"),
                               PyStr("+1 (555) 123-4567"), PyStr("Paris"), PyInt(7)>>)],
     [source |-> "Google Maps",
      company_data |-> Dict(("name" :> PyStr("Dino")) @@ ("phone" :> PyStr("12")))],
     [source |-> "Yelp",
      company_data |-> Tuple(<<PyStr("Echo"), PyStr("echo.net")>>)],
     [source |-> "TrustPilot", company_data |-> Other]}

RECURSIVE SeqsUpTo(_, _)
SeqsUpTo(S, n) ==
    IF n = 0 THEN {<<>>}
    ELSE LET shorter == SeqsUpTo(S, n - 1)
         IN  shorter \cup {Append(s, x) : s \in {t \in shorter : Len(t) = n - 1}, x \in S}

DataSamples == SeqsUpTo(RecordSamples, MaxRecords)

-----------------------------------------------------------------------------
(* create_sheet_for_query: worksheet name and row building *)

Get(d, key, default) == IF key \in DOMAIN d THEN d[key] ELSE default

SheetName(query_details, date_str) ==
    LET category == Get(query_details, "category", "Unknown")
        country == Get(query_details, "country", "Unknown")
        city == Get(query_details, "city", "Unknown")
        full == category \o "-" \o country \o "-" \o city \o "-" \o date_str
    IN  SubSeq(full, 1, Min(TruncLen, Len(full)))

Headers ==
    <<"Source", "Company Name", "Website", "Email", "Phone", "Location", "Rating",
      "Reviews", "Verification">>

RangeName(name, vals) == name \o "!A1:I" \o IntStr(Len(vals))

Pad(fields, arity) == fields \o [i \in 1..Max(0, arity - Len(fields)) |-> NA]

TrustPilotRow_WithLink(source, p) ==
    <<source, Field(p[1]), Field(p[2]), Field(PyStr(EmailsStr(p[3]))), Field(p[4]),
      "https://wa.me/" \o Field(p[4]), Field(p[5]), Field(p[6]), Field(p[7]),
      Field(p[8])>>

TrustPilotRow(source, p) ==
    <<source, Field(p[1]), Field(p[2]), Field(PyStr(EmailsStr(p[3]))), Field(p[4]),
      Field(p[5]), Field(p[6]), Field(p[7]), Field(p[8])>>

GoogleMapsRow(source, p) ==
    <<source, Field(p[1]), Field(p[2]), Field(PyStr(EmailsStr(p[3]))), Field(p[4]),
      Field(p[5]), "N/A", Field(p[6]), "N/A">>

Row(r) == [kind |-> "row", row |-> r, exc |-> ""]
Skip == [kind |-> "skip", row |-> <<>>, exc |-> ""]
Raise(e) == [kind |-> "raise", row |-> <<>>, exc |-> e]

\* One pass of the for loop over data (lines 133-182).  In the mapping branch
\* every field is bound to the method str.ljust, not to a string, and
\* re.findall(r'\d', phone) on line 167 raises TypeError before a row is built.
ProcessItem(item) ==
    LET source == item.source
        company_data == item.company_data
    IN  IF source = "TrustPilot" /\ company_data.kind = "tuple"
        THEN LET p == Pad(company_data.fields, TrustPilotArity)
             IN  IF Len(p) # TrustPilotArity THEN Raise("ValueError")
                 ELSE Row(TrustPilotRow(source, p))
        ELSE IF source = "Google Maps" /\ company_data.kind = "tuple"
        THEN LET p == Pad(company_data.fields, GoogleMapsArity)
             IN  IF Len(p) # GoogleMapsArity THEN Raise("ValueError")
                 ELSE Row(GoogleMapsRow(source, p))
        ELSE IF company_data.kind = "dict"
        THEN Raise("TypeError")
        ELSE Skip

-----------------------------------------------------------------------------
(* The state machine *)

Call(op, ok, doc, name, rows) ==
    [op |-> op, ok |-> ok, doc |-> doc, name |-> name, rows |-> rows]

Handler == IF entry = "create_google_sheet" THEN "sheets_handler" ELSE "client"

Cache == user_spreadsheets[Handler]

InCache_Never(cache, uid) == FALSE

InCache(cache, uid) == uid \in DOMAIN cache

CacheInsert(uid, id) ==
    [user_spreadsheets EXCEPT ![Handler] = (uid :> id) @@ user_spreadsheets[Handler]]

Init ==
    /\ user_spreadsheets = [h \in Handlers |-> <<>>]
    /\ drive_files = <<>>
    /\ permissions = {}
    /\ pc = "idle"
    /\ entry = ""
    /\ user_id = 0
    /\ username = ""
    /\ cached_at_call = FALSE
    /\ spreadsheet_id = 0
    /\ sheet_name = ""
    /\ data = <<>>
    /\ values = <<>>
    /\ idx = 0
    /\ exc = ""
    /\ log = <<>>
    /\ exported = <<>>

Frame == <<sheet_name, data, values, idx>>
Backend == <<drive_files, permissions>>
Args == <<entry, user_id, username, cached_at_call>>

\* A caller that keeps one handler calls get_or_create_user_spreadsheet on it.
CallGetOrCreate ==
    /\ pc = "idle"
    /\ \E u \in Users :
         /\ user_id' = u.id
         /\ username' = DisplayName(u)
         /\ cached_at_call' = (u.id \in DOMAIN user_spreadsheets["client"])
    /\ entry' = "get_or_create_user_spreadsheet"
    /\ pc' = "resolve"
    /\ UNCHANGED <<user_spreadsheets, Backend, spreadsheet_id, Frame, exc, log, exported>>

\* create_google_sheet builds its own handler (line 206), then resolves.
CallCreateGoogleSheet ==
    /\ pc = "idle"
    /\ \E u \in Users :
         /\ user_id' = u.id
         /\ username' = DisplayName(u)
    /\ user_spreadsheets' = [user_spreadsheets EXCEPT !["sheets_handler"] = <<>>]
    /\ cached_at_call' = FALSE
    /\ entry' = "create_google_sheet"
    /\ pc' = "resolve"
    /\ UNCHANGED <<Backend, spreadsheet_id, Frame, exc, log, exported>>

\* Lines 54-55.
CacheLookup ==
    /\ pc = "resolve"
    /\ InCache(Cache, user_id)
    /\ spreadsheet_id' = Cache[user_id]
    /\ pc' = "resolved"
    /\ UNCHANGED <<user_spreadsheets, Backend, Args, Frame, exc, log, exported>>

Matches(title) == {d \in DOMAIN drive_files : drive_files[d] = title}

\* What find_user_spreadsheet returns: files[0]['id'], None (0) when the list
\* is empty, None (0) when files().list raised HttpError (lines 47-49).
SearchOutcomes(title) ==
    {[ok |-> FALSE, id |-> 0]} \cup
    (IF Matches(title) = {} THEN {[ok |-> TRUE, id |-> 0]}
     ELSE {[ok |-> TRUE, id |-> d] : d \in Matches(title)})

\* Lines 58-61.
FindUserSpreadsheet ==
    /\ pc = "resolve"
    /\ ~InCache(Cache, user_id)
    /\ \E r \in SearchOutcomes(Title(username)) :
         /\ log' = Append(log, Call("search", r.ok, r.id, Title(username), <<>>))
         /\ IF r.id # 0
            THEN /\ user_spreadsheets' = CacheInsert(user_id, r.id)
                 /\ spreadsheet_id' = r.id
                 /\ pc' = "resolved"
            ELSE /\ pc' = "create"
                 /\ UNCHANGED <<user_spreadsheets, spreadsheet_id>>
    /\ UNCHANGED <<Backend, Args, Frame, exc, exported>>

FreshIds == (1..MaxDocs) \ DOMAIN drive_files

\* Lines 71-76, and 92-94 when spreadsheets().create raises.
CreateSpreadsheet ==
    /\ pc = "create"
    /\ \/ /\ FreshIds # {}
          /\ LET id == CHOOSE d \in FreshIds : \A e \in FreshIds : d <= e
             IN  /\ drive_files' = (id :> Title(username)) @@ drive_files
                 /\ user_spreadsheets' = CacheInsert(user_id, id)
                 /\ spreadsheet_id' = id
                 /\ log' = Append(log, Call("create", TRUE, id, Title(username), <<>>))
          /\ pc' = "grant"
          /\ UNCHANGED <<permissions, exc>>
       \/ /\ log' = Append(log, Call("create", FALSE, 0, Title(username), <<>>))
          /\ exc' = "HttpError"
          /\ pc' = "raised"
          /\ UNCHANGED <<user_spreadsheets, Backend, spreadsheet_id>>
    /\ UNCHANGED <<Args, Frame, exported>>

\* Lines 79-90, and 92-94 when permissions().create raises.
GrantPermission ==
    /\ pc = "grant"
    /\ \/ /\ permissions' = permissions \cup {spreadsheet_id}
          /\ log' = Append(log, Call("grant", TRUE, spreadsheet_id, "", <<>>))
          /\ pc' = "resolved"
          /\ UNCHANGED <<exc, spreadsheet_id>>
       \/ /\ log' = Append(log, Call("grant", FALSE, spreadsheet_id, "", <<>>))
          /\ exc' = "HttpError"
          /\ pc' = "raised"
          /\ spreadsheet_id' = 0
          /\ UNCHANGED permissions
    /\ UNCHANGED <<user_spreadsheets, drive_files, Args, Frame, exported>>

\* get_or_create_user_spreadsheet returns to the caller that holds the handler.
ReturnGetOrCreate ==
    /\ pc = "resolved"
    /\ entry = "get_or_create_user_spreadsheet"
    /\ pc' = "idle"
    /\ entry' = ""
    /\ user_id' = 0
    /\ username' = ""
    /\ cached_at_call' = FALSE
    /\ spreadsheet_id' = 0
    /\ log' = <<>>
    /\ UNCHANGED <<user_spreadsheets, Backend, Frame, exc, exported>>

AddSheetNext_Swallow(ok) == "loop"

\* Where create_sheet_for_query goes after batchUpdate: on to line 128, or out
\* through the handler of lines 199-201, which re-raises.
AddSheetNext(ok) == IF ok THEN "loop" ELSE "raised"

\* create_google_sheet line 215 calls create_sheet_for_query, which runs
\* lines 100-130: the worksheet name, the addSheet request, the header row.
AddSheet ==
    /\ pc = "resolved"
    /\ entry = "create_google_sheet"
    /\ \E query_details \in QuerySamples, date_str \in Timestamps,
          d \in DataSamples, ok \in BOOLEAN :
         LET name == SheetName(query_details, date_str)
         IN  /\ sheet_name' = name
             /\ data' = d
             /\ log' = Append(log, Call("addSheet", ok, spreadsheet_id, name, <<>>))
             /\ exc' = IF ok THEN exc ELSE "HttpError"
             /\ pc' = AddSheetNext(ok)
             /\ IF AddSheetNext(ok) = "loop"
                THEN values' = <<Headers>> /\ idx' = 1
                ELSE UNCHANGED <<values, idx>>
    /\ UNCHANGED <<user_spreadsheets, Backend, Args, spreadsheet_id, exported>>

\* One iteration of the loop of lines 133-182.  TypeError and ValueError are
\* not HttpError: they pass the handler of line 199 and reach line 219.
ProcessRecord ==
    /\ pc = "loop"
    /\ idx <= Len(data)
    /\ LET o == ProcessItem(data[idx])
       IN  /\ values' = IF o.kind = "row" THEN Append(values, o.row) ELSE values
           /\ idx' = IF o.kind = "raise" THEN idx ELSE idx + 1
           /\ pc' = IF o.kind = "raise" THEN "raised" ELSE "loop"
           /\ exc' = IF o.kind = "raise" THEN o.exc ELSE exc
    /\ UNCHANGED <<user_spreadsheets, Backend, Args, spreadsheet_id, sheet_name, data,
                   log, exported>>

\* Lines 185-197, and 199-201 when values().update raises.
BulkWrite ==
    /\ pc = "loop"
    /\ idx > Len(data)
    /\ \E ok \in BOOLEAN :
         /\ log' = Append(log, Call("write", ok, spreadsheet_id,
                                    RangeName(sheet_name, values), values))
         /\ pc' = IF ok THEN "returned" ELSE "raised"
         /\ exc' = IF ok THEN exc ELSE "HttpError"
    /\ UNCHANGED <<user_spreadsheets, Backend, Args, spreadsheet_id, Frame, exported>>

\* The call ends: create_google_sheet returns spreadsheet_id (line 217) or the
\* exception leaves the outermost function (lines 94, 201, 221).
Finish ==
    /\ pc \in {"returned", "raised"}
    /\ exported' =
         IF entry = "create_google_sheet" /\ spreadsheet_id # 0
            /\ user_id \notin DOMAIN exported
         THEN (user_id :> spreadsheet_id) @@ exported
         ELSE exported
    /\ pc' = "idle"
    /\ entry' = ""
    /\ user_id' = 0
    /\ username' = ""
    /\ cached_at_call' = FALSE
    /\ spreadsheet_id' = 0
    /\ sheet_name' = ""
    /\ data' = <<>>
    /\ values' = <<>>
    /\ idx' = 0
    /\ exc' = ""
    /\ log' = <<>>
    /\ user_spreadsheets' = [user_spreadsheets EXCEPT !["sheets_handler"] = <<>>]
    /\ UNCHANGED Backend

Next ==
    \/ CallGetOrCreate
    \/ CallCreateGoogleSheet
    \/ CacheLookup
    \/ FindUserSpreadsheet
    \/ CreateSpreadsheet
    \/ GrantPermission
    \/ ReturnGetOrCreate
    \/ AddSheet
    \/ ProcessRecord
    \/ BulkWrite
    \/ Finish

Spec == Init /\ [][Next]_vars

\* A caller that builds one GoogleSheetsHandler and keeps calling
\* get_or_create_user_spreadsheet on it.
NextHandler ==
    \/ CallGetOrCreate
    \/ CacheLookup
    \/ FindUserSpreadsheet
    \/ CreateSpreadsheet
    \/ GrantPermission
    \/ ReturnGetOrCreate
    \/ Finish

SpecHandler == Init /\ [][NextHandler]_vars

\* The module's own caller: create_google_sheet only.  Its handler is built on
\* line 206 with an empty cache, so line 55 is not reachable from it.
NextExport ==
    \/ CallCreateGoogleSheet
    \/ FindUserSpreadsheet
    \/ CreateSpreadsheet
    \/ GrantPermission
    \/ AddSheet
    \/ ProcessRecord
    \/ BulkWrite
    \/ Finish

SpecExport == Init /\ [][NextExport]_vars

-----------------------------------------------------------------------------
(* Vocabulary of the properties *)

ResolutionOps == {"search", "create", "grant"}

Ops(l) == [i \in 1..Len(l) |-> l[i].op]

ResLog == SelectSeq(log, LAMBDA c : c.op \in ResolutionOps)

At(op) == {i \in 1..Len(log) : log[i].op = op}

\* get_or_create_user_spreadsheet has returned or raised
ResolutionEnded == pc \notin {"idle", "resolve", "create", "grant"}

RaisedInResolution ==
    pc = "raised" /\ log # <<>> /\ log[Len(log)].op \in ResolutionOps

\* create_sheet_for_query was entered and has returned or raised
SheetCallEnded == pc \in {"returned", "raised"} /\ At("addSheet") # {}

IsTupleRecord(item) ==
    item.source \in {"TrustPilot", "Google Maps"} /\ item.company_data.kind = "tuple"

IsMapping(item) == item.company_data.kind = "dict"

Recognized(item) == IsTupleRecord(item) \/ IsMapping(item)

-----------------------------------------------------------------------------
(* C1 *)

C1_Calls ==
    /\ cached_at_call =>
         /\ ResLog = <<>>
         /\ pc # "raised"
         /\ ResolutionEnded => spreadsheet_id = Cache[user_id]
    /\ (~cached_at_call /\ pc \notin {"idle", "resolve"}) =>
         /\ Ops(ResLog) \in {<<"search">>, <<"search", "create">>,
                             <<"search", "create", "grant">>}
         /\ Len(ResLog) >= 2 => ResLog[1].doc = 0
         /\ Len(ResLog) = 3 => ResLog[2].ok
         /\ (ResolutionEnded /\ ResLog[1].doc = 0) => Len(ResLog) >= 2
         /\ (ResolutionEnded /\ Len(ResLog) >= 2 /\ ResLog[2].ok) => Len(ResLog) = 3
         /\ pc = "create" => Len(ResLog) = 1
         /\ pc = "grant" => Len(ResLog) = 2
         /\ (ResolutionEnded /\ ~RaisedInResolution /\ ResLog[1].doc = 0) =>
              /\ Ops(ResLog) = <<"search", "create", "grant">>
              /\ ResLog[2].ok /\ ResLog[3].ok
              /\ ResLog[3].doc = ResLog[2].doc
              /\ spreadsheet_id = ResLog[2].doc
         /\ (ResolutionEnded /\ ResLog[1].doc # 0) => spreadsheet_id = ResLog[1].doc
         /\ RaisedInResolution => ~ResLog[Len(ResLog)].ok

C1_Stable ==
    \A u \in DOMAIN user_spreadsheets["client"] :
        /\ u \in DOMAIN user_spreadsheets'["client"]
        /\ user_spreadsheets'["client"][u] = user_spreadsheets["client"][u]

-----------------------------------------------------------------------------
(* C2 *)

\* C2: when get_or_create_user_spreadsheet raises because a remote call of
\* the resolution failed, the index holds no entry for user_id.
C2_IndexUnchangedOnFailure ==
    RaisedInResolution => user_id \notin DOMAIN Cache

-----------------------------------------------------------------------------
(* C3 *)

\* C3: a failed remote call of an export is the export's last remote call (no
\* further call, no retry) and the export does not return a document id.
C3_FailureAborts ==
    entry = "create_google_sheet" =>
        \A i \in 1..Len(log) : ~log[i].ok => (i = Len(log) /\ pc # "returned")

-----------------------------------------------------------------------------
(* C4 *)

\* C4: between steps of the creation path, every document the handler created
\* that is cached in an index or was returned by the resolution has had the
\* collaborator's writer permission granted.
C4_CreatedImpliesGranted ==
    pc \notin {"grant"} =>
        /\ \A h \in Handlers : \A u \in DOMAIN user_spreadsheets[h] :
             user_spreadsheets[h][u] \in permissions
        /\ spreadsheet_id # 0 => spreadsheet_id \in permissions

-----------------------------------------------------------------------------
(* Rows as the properties describe them *)

FieldOr(item, i) ==
    IF i <= Len(item.company_data.fields) THEN item.company_data.fields[i] ELSE NA

\* Source, Company Name, Website, Email, Phone, Location, Rating, Reviews,
\* Verification
NineFields(item) ==
    IF item.source = "TrustPilot"
    THEN <<item.source, Str(FieldOr(item, 1)), Str(FieldOr(item, 2)),
           EmailsStr(FieldOr(item, 3)), Str(FieldOr(item, 4)), Str(FieldOr(item, 5)),
           Str(FieldOr(item, 6)), Str(FieldOr(item, 7)), Str(FieldOr(item, 8))>>
    ELSE <<item.source, Str(FieldOr(item, 1)), Str(FieldOr(item, 2)),
           EmailsStr(FieldOr(item, 3)), Str(FieldOr(item, 4)), Str(FieldOr(item, 5)),
           "N/A", Str(FieldOr(item, 6)), "N/A">>

RECURSIVE DigitsOf(_)
DigitsOf(s) ==
    IF Len(s) = 0 THEN ""
    ELSE LET c == SubSeq(s, 1, 1)
             rest == DigitsOf(SubSeq(s, 2, Len(s)))
         IN  IF \E i \in 1..10 : DigitChars[i] = c THEN c \o rest ELSE rest

WhatsAppLink(phone) ==
    IF phone = "N/A" \/ Len(DigitsOf(phone)) < 8 THEN "N/A"
    ELSE "https://wa.me/" \o DigitsOf(phone)

\* ... Phone, WhatsApp Link, Location ...
TenFields(item) ==
    LET r == NineFields(item)
    IN  SubSeq(r, 1, 5) \o <<WhatsAppLink(r[5])>> \o SubSeq(r, 6, 9)

Processed == SubSeq(data, 1, idx - 1)

TupleRecords(items) == SelectSeq(items, IsTupleRecord)

RecognizedRecords(items) == SelectSeq(items, Recognized)

AddSheetOk == \E a \in At("addSheet") : log[a].ok

-----------------------------------------------------------------------------
(* C5 *)

\* C5: when every record of data has a recognized shape and worksheet
\* creation succeeded, create_sheet_for_query submits a bulk write of
\* Len(data) + 1 rows, the header first, row i + 1 built from record i.
C5_AllRecordsWritten ==
    (SheetCallEnded /\ AddSheetOk /\ \A i \in 1..Len(data) : Recognized(data[i])) =>
        \E w \in At("write") :
            /\ Len(log[w].rows) = Len(data) + 1
            /\ log[w].rows[1] = Headers
            /\ \A i \in 1..Len(data) :
                 /\ log[w].rows[i + 1][1] = data[i].source
                 /\ IsTupleRecord(data[i]) =>
                      log[w].rows[i + 1][2] = Str(FieldOr(data[i], 1))

-----------------------------------------------------------------------------
(* C6 *)

\* C6: once the loop has passed a record of unrecognized shape (worksheet
\* creation having succeeded), the export is not aborted: the bulk write is
\* submitted with the header and one row per recognized record of data, in
\* input order, and no row for the unrecognized one.
C6_UnrecognizedSkipped ==
    (SheetCallEnded /\ AddSheetOk /\ \E i \in 1..(idx - 1) : ~Recognized(data[i])) =>
        \E w \in At("write") :
            LET kept == RecognizedRecords(data)
            IN  /\ Len(log[w].rows) = Len(kept) + 1
                /\ \A k \in 1..Len(kept) : log[w].rows[k + 1][1] = kept[k].source

-----------------------------------------------------------------------------
(* C7 *)

\* C7: a record whose data is a mapping is processed normally: the loop does
\* not raise at it, and once past it the rows hold one row per recognized
\* record processed so far.
C7_MappingYieldsRow ==
    values # <<>> =>
        /\ (pc = "raised" /\ exc # "HttpError") => ~IsMapping(data[idx])
        /\ \A i \in 1..(idx - 1) : IsMapping(data[i]) =>
             Len(values) = Len(RecognizedRecords(Processed)) + 1

-----------------------------------------------------------------------------
(* C8 *)

\* C8 as stated: every data row built from a TrustPilot or Google Maps tuple
\* record has the 10 fields Source, Company Name, Website, Email, Phone,
\* WhatsApp Link, Location, Rating, Reviews, Verification, the link derived
\* from the digits of the phone.
C8_AsStated ==
    values # <<>> =>
        LET t == TupleRecords(Processed)
        IN  Tail(values) = [k \in 1..Len(t) |-> TenFields(t[k])]

\* C8, amended: every data row built from a TrustPilot or Google Maps tuple
\* record has exactly the 9 fields Source, Company Name, Website, Email,
\* Phone, Location, Rating, Reviews, Verification, in that order; there is no
\* WhatsApp Link field; the rows submitted are these rows under the header.
C8_Amended ==
    values # <<>> =>
        LET t == TupleRecords(Processed)
        IN  /\ values[1] = Headers
            /\ Tail(values) = [k \in 1..Len(t) |-> NineFields(t[k])]
            /\ \A k \in 2..Len(values) : Len(values[k]) = 9
            /\ \A w \in At("write") : log[w].rows = values

\* a bulk write went through with a TrustPilot row and a Google Maps row
C8_Witness ==
    /\ pc = "returned"
    /\ \E w \in At("write") :
         /\ log[w].ok
         /\ \E i, j \in 2..Len(log[w].rows) :
              /\ log[w].rows[i][1] = "TrustPilot"
              /\ log[w].rows[j][1] = "Google Maps"

-----------------------------------------------------------------------------
(* C9 *)

\* C9: once a create_google_sheet call has resolved a document for a user,
\* a later create_google_sheet call for that user finds the user in the
\* index, makes no search and no create, and resolves the same document id.
C9_IndexSurvivesCalls ==
    (entry = "create_google_sheet" /\ user_id \in DOMAIN exported /\ pc # "resolve") =>
        /\ cached_at_call
        /\ At("search") = {} /\ At("create") = {}
        /\ spreadsheet_id # 0 => spreadsheet_id = exported[user_id]

-----------------------------------------------------------------------------
(* C10 *)

\* the resolution part of the log is that of a resolution that returned an id
ResolutionReturned ==
    \/ /\ Ops(ResLog) = <<"search">>
       /\ ResLog[1].doc # 0
    \/ /\ Ops(ResLog) = <<"search", "create", "grant">>
       /\ ResLog[1].doc = 0
       /\ ResLog[2].ok /\ ResLog[3].ok

\* C10: within one create_google_sheet call the resolution has returned a
\* document id before worksheet creation is requested, worksheet creation has
\* succeeded before the bulk write is requested, there is at most one of each,
\* the bulk write addresses the worksheet just created in the resolved
\* document, and nothing is written when worksheet creation failed.
C10_CallOrder ==
    entry = "create_google_sheet" =>
        /\ Cardinality(At("addSheet")) <= 1
        /\ Cardinality(At("write")) <= 1
        /\ \A a \in At("addSheet") :
             /\ \A j \in 1..Len(log) : log[j].op \in ResolutionOps => j < a
             /\ ResolutionReturned
             /\ spreadsheet_id # 0
             /\ log[a].doc = spreadsheet_id
             /\ ~log[a].ok => (a = Len(log) /\ pc = "raised")
        /\ \A w \in At("write") :
             /\ w = Len(log)
             /\ w - 1 \in At("addSheet")
             /\ log[w - 1].ok
             /\ log[w].doc = log[w - 1].doc
             /\ log[w].name = log[w - 1].name \o "!A1:I" \o IntStr(Len(log[w].rows))
             /\ Len(log[w - 1].name) <= TruncLen

\* an export that created the document, shared it, added the worksheet and
\* wrote the rows
C10_Witness ==
    /\ pc = "returned"
    /\ Ops(log) = <<"search", "create", "grant", "addSheet", "write">>
    /\ \A i \in 2..5 : log[i].ok

====
